---- MODULE Spec2Model ----
(***************************************************************************)
(* A model of the splay tree of cyberfined/splay-tree-rs: the node heap    *)
(* (key, value, left, right, parent), the tree (root, length), the entry   *)
(* handle, and every public operation as one action.                       *)
(***************************************************************************)
EXTENDS Integers, FiniteSets, Sequences, TLC

MaxKey == 4          \* keys are 1..MaxKey
MaxVal == 1          \* values are 0..MaxVal
MaxNodes == 7        \* addresses the allocator can hand out
MaxResplay == 5      \* trees up to this size are splayed more than once

NULL == 0            \* Option::None of a NodePtr
Keys == 1..MaxKey
Values == 0..MaxVal
Default == 0          \* V::default() of the value type
NodeIds == 1..MaxNodes

VARIABLES
    nodes,      \* the heap: address -> Node, for every node the tree owns
    root,       \* SplayTree.root
    length,     \* SplayTree.length
    entry,      \* the Entry handle borrowed from the tree, if any
    last,       \* the last public call: its name, arguments and result
    panicked,   \* TRUE once an unwrap() of None has panicked
    dropped,    \* TRUE once the tree has gone out of scope
    freed       \* the addresses deallocated when it did, in that order

vars == <<nodes, root, length, entry, last, panicked, dropped, freed>>

-----------------------------------------------------------------------------
(* Node *)
(* An operator that changes the heap takes it as ns and yields the new one;  *)
(* one that also returns a reference yields [nodes, ret], ret = NULL for     *)
(* None. Intermediate results are passed as arguments, statement by          *)
(* statement in the order of the code.                                       *)

Node(k, v, l, r, p) == [key |-> k, value |-> v, left |-> l, right |-> r, parent |-> p]

new(k, v) == Node(k, v, NULL, NULL, NULL)

is_root(ns, n) == ns[n].parent = NULL

is_left(ns, n) ==
    IF ns[n].parent # NULL THEN ns[ns[n].parent].left = n ELSE FALSE

is_right(ns, n) ==
    IF ns[n].parent # NULL THEN ns[ns[n].parent].right = n ELSE FALSE

\* The address Box::new returns. The allocator may hand out any address not in
\* use and the program never looks at an address except to compare two of them
\* for equality, so one choice stands for all: the address numbered like the
\* key when that one is not in use, the lowest address not in use otherwise.
Alloc(ns, k) ==
    IF k \in NodeIds \ DOMAIN ns THEN k
    ELSE CHOOSE a \in NodeIds \ DOMAIN ns : \A b \in NodeIds \ DOMAIN ns : a <= b

\* Box::leak(Box::new(node)): the node is on the heap at address a
Put(ns, a, node) == [x \in DOMAIN ns \cup {a} |-> IF x = a THEN node ELSE ns[x]]

\* ref_into_box: the node at a is the caller's, no longer the tree's
Drop(ns, a) == [x \in DOMAIN ns \ {a} |-> ns[x]]

\* the Less arm of Node::insert_child, a the new node's address
link_left(ns, self, a, k, v) ==
    [nodes |-> [Put(ns, a, Node(k, v, NULL, NULL, self)) EXCEPT ![self].left = a],
     ret |-> a]

\* the Greater arm of Node::insert_child
link_right(ns, self, a, k, v) ==
    [nodes |-> [Put(ns, a, Node(k, v, NULL, NULL, self)) EXCEPT ![self].right = a],
     ret |-> a]

\* mutant: a smaller key is linked into the right slot
node_insert_child_wrong_side(ns, self, k, v) ==
    IF k < ns[self].key /\ ns[self].left = NULL THEN
        link_right(ns, self, Alloc(ns, k), k, v)
    ELSE IF k = ns[self].key THEN
        [nodes |-> [ns EXCEPT ![self].value = v], ret |-> self]
    ELSE IF k > ns[self].key /\ ns[self].right = NULL THEN
        link_right(ns, self, Alloc(ns, k), k, v)
    ELSE [nodes |-> ns, ret |-> NULL]

\* mutant: a greater key finds no arm
node_insert_child_no_right(ns, self, k, v) ==
    IF k < ns[self].key /\ ns[self].left = NULL THEN
        link_left(ns, self, Alloc(ns, k), k, v)
    ELSE IF k = ns[self].key THEN
        [nodes |-> [ns EXCEPT ![self].value = v], ret |-> self]
    ELSE [nodes |-> ns, ret |-> NULL]

\* Node::insert_child
node_insert_child(ns, self, k, v) ==
    IF k < ns[self].key /\ ns[self].left = NULL THEN
        link_left(ns, self, Alloc(ns, k), k, v)
    ELSE IF k = ns[self].key THEN
        [nodes |-> [ns EXCEPT ![self].value = v], ret |-> self]
    ELSE IF k > ns[self].key /\ ns[self].right = NULL THEN
        link_right(ns, self, Alloc(ns, k), k, v)
    ELSE [nodes |-> ns, ret |-> NULL]

\* rotate_left, rotate_right: the promoted child c takes self's parent and takes
\* self as its left (right) child
promote_left(ns, self, c, parent_ptr) ==
    [ns EXCEPT ![c].parent = parent_ptr, ![c].left = self]

promote_right(ns, self, c, parent_ptr) ==
    [ns EXCEPT ![c].parent = parent_ptr, ![c].right = self]

\* rotate_left, rotate_right: the slot of self's parent that held self, told by
\* is_left, now holds c
replace_in_parent(ns, self, c) ==
    IF ns[self].parent # NULL
    THEN IF is_left(ns, self) THEN [ns EXCEPT ![ns[self].parent].left = c]
                              ELSE [ns EXCEPT ![ns[self].parent].right = c]
    ELSE ns

\* mutant: the subtree moved under self keeps its old parent slot
demote_left_no_reparent(ns, self, c, moved) ==
    [ns EXCEPT ![self].parent = c, ![self].right = moved]

\* rotate_left: self goes under c and takes c's former left subtree as its right
demote_left(ns, self, c, moved) ==
    IF moved # NULL
    THEN [ns EXCEPT ![self].parent = c, ![self].right = moved, ![moved].parent = self]
    ELSE [ns EXCEPT ![self].parent = c, ![self].right = moved]

\* mutant: the subtree moved under self keeps its old parent slot
demote_right_no_reparent(ns, self, c, moved) ==
    [ns EXCEPT ![self].parent = c, ![self].left = moved]

\* mutant: the subtree that should move under self is left out
demote_right_moved_lost(ns, self, c, moved) ==
    [ns EXCEPT ![self].parent = c, ![self].left = NULL]

\* rotate_right: self goes under c and takes c's former right subtree as its left
demote_right(ns, self, c, moved) ==
    IF moved # NULL
    THEN [ns EXCEPT ![self].parent = c, ![self].left = moved, ![moved].parent = self]
    ELSE [ns EXCEPT ![self].parent = c, ![self].left = moved]

\* mutant: the left subtree of the promoted node is not handed to self
rotate_left_moved_lost(ns, self) ==
    IF ns[self].right = NULL THEN ns
    ELSE demote_left(
             replace_in_parent(
                 promote_left(ns, self, ns[self].right, ns[self].parent),
                 self, ns[self].right),
             self, ns[self].right, NULL)

rotate_left(ns, self) ==
    IF ns[self].right = NULL THEN ns
    ELSE demote_left(
             replace_in_parent(
                 promote_left(ns, self, ns[self].right, ns[self].parent),
                 self, ns[self].right),
             self, ns[self].right, ns[ns[self].right].left)

rotate_right(ns, self) ==
    IF ns[self].left = NULL THEN ns
    ELSE demote_right(
             replace_in_parent(
                 promote_right(ns, self, ns[self].left, ns[self].parent),
                 self, ns[self].left),
             self, ns[self].left, ns[ns[self].left].right)

\* Node::splay_type: "None" stands for Option::None.
splay_type(ns, self) ==
    IF ns[self].parent = NULL THEN "None"
    ELSE IF is_root(ns, ns[self].parent) THEN "Zig"
    ELSE IF (is_left(ns, self) /\ is_left(ns, ns[self].parent)) \/
            (is_right(ns, self) /\ is_right(ns, ns[self].parent)) THEN "ZigZig"
    ELSE IF ~is_root(ns, ns[self].parent) THEN "ZigZag"
    ELSE "None"

\* Option::map over a parent slot p: the rotation runs only when the slot is full
map_rotate_left(ns, p) == IF p = NULL THEN ns ELSE rotate_left(ns, p)

map_rotate_right(ns, p) == IF p = NULL THEN ns ELSE rotate_right(ns, p)

\* mutant: the parent is rotated away from self
Zig_wrong_way(ns, self, is_left0) ==
    IF is_left0 THEN map_rotate_left(ns, ns[self].parent)
                ELSE map_rotate_right(ns, ns[self].parent)

\* the arms of Node::splay_step; is_left was read before any rotation
Zig(ns, self, is_left0) ==
    IF is_left0 THEN map_rotate_right(ns, ns[self].parent)
                ELSE map_rotate_left(ns, ns[self].parent)

\* mutant: the parent p is rotated first, then its former parent g
ZigZigAt_parent_first(ns, p, is_left0) ==
    IF is_left0 THEN map_rotate_right(rotate_right(ns, p), ns[p].parent)
                ELSE map_rotate_left(rotate_left(ns, p), ns[p].parent)

\* p is self's parent: its parent g is rotated first, then p
ZigZigAt(ns, p, is_left0) ==
    IF is_left0 THEN rotate_right(map_rotate_right(ns, ns[p].parent), p)
                ELSE rotate_left(map_rotate_left(ns, ns[p].parent), p)

\* mutant: the grandparent is rotated and the parent is not
ZigZig_grandparent_only(ns, self, is_left0) ==
    IF ns[self].parent = NULL THEN ns
    ELSE IF is_left0 THEN map_rotate_right(ns, ns[ns[self].parent].parent)
    ELSE map_rotate_left(ns, ns[ns[self].parent].parent)

ZigZig(ns, self, is_left0) ==
    IF ns[self].parent = NULL THEN ns ELSE ZigZigAt(ns, ns[self].parent, is_left0)

\* mutant: the second rotation is left out
ZigZagSecond_skipped(ns, self, is_left0) == ns

\* the second rotation is at the parent self has after the first one
ZigZagSecond(ns, self, is_left0) ==
    IF is_left0 THEN map_rotate_left(ns, ns[self].parent)
                ELSE map_rotate_right(ns, ns[self].parent)

ZigZag(ns, self, is_left0) ==
    ZigZagSecond(
        IF is_left0 THEN map_rotate_right(ns, ns[self].parent)
                    ELSE map_rotate_left(ns, ns[self].parent),
        self, is_left0)

splay_rotations(ns, self, is_left0, ty) ==
    CASE ty = "Zig" -> Zig(ns, self, is_left0)
      [] ty = "ZigZig" -> ZigZig(ns, self, is_left0)
      [] ty = "ZigZag" -> ZigZag(ns, self, is_left0)
      [] OTHER -> ns

\* the end of Node::splay_step: Some(self) once self is parentless
step_result(ns, self) == [nodes |-> ns, ret |-> IF is_root(ns, self) THEN self ELSE NULL]

\* Node::splay_step
splay_step(ns, self) ==
    step_result(splay_rotations(ns, self, is_left(ns, self), splay_type(ns, self)), self)

\* the loop of Node::splay, r the result of the step just taken
RECURSIVE splay_loop(_, _)
splay_loop(r, self) ==
    IF r.ret # NULL THEN r ELSE splay_loop(splay_step(r.nodes, self), self)

\* Node::splay
splay(ns, self) == splay_loop(splay_step(ns, self), self)

RECURSIVE find_max(_, _)
find_max(ns, cur) ==
    IF ns[cur].right # NULL THEN find_max(ns, ns[cur].right) ELSE cur

\* mutant: the walk to the minimum takes one step only
find_min_one_step(ns, cur) ==
    IF ns[cur].left # NULL THEN ns[cur].left ELSE cur

RECURSIVE find_min(_, _)
find_min(ns, cur) ==
    IF ns[cur].left # NULL THEN find_min(ns, ns[cur].left) ELSE cur

\* mutant: the right subtree learns its parent and is not put in its slot
attach_right_unlinked(res, left_max, right) ==
    [nodes |-> [res.nodes EXCEPT ![right].parent = res.ret], ret |-> res.ret]

\* the end of Node::merge, res the result of splaying left_max
attach_right(res, left_max, right) ==
    [nodes |-> [res.nodes EXCEPT ![right].parent = res.ret, ![left_max].right = right],
     ret |-> res.ret]

merge_at(ns, left_max, right) == attach_right(splay(ns, left_max), left_max, right)

\* mutant: the left subtree's root is taken for its maximum
merge_at_left_root(ns, self, right) == merge_at(ns, self, right)

\* Node::merge, self the left subtree's root
merge(ns, self, right) == merge_at(ns, find_max(ns, self), right)

-----------------------------------------------------------------------------
(* SplayTree: operators over a tree record [nodes, root, length]. One that   *)
(* returns a reference yields [t, ret], t the tree afterwards.               *)

Tree(ns, rt, length0) == [nodes |-> ns, root |-> rt, length |-> length0]

NoBox == Node(0, 0, NULL, NULL, NULL)

\* find_ptr: the slot the comparison of key with cur_node's key leads to
next_node(ns, cur_node, key) ==
    IF key < ns[cur_node].key THEN ns[cur_node].left ELSE ns[cur_node].right

\* mutant: the root is not set to the node splayed
found_root_unset(t, r, cur_node) ==
    [t |-> Tree(r.nodes, t.root, t.length), kind |-> "Found", ptr |-> cur_node]

\* find_ptr, the Equal arm: root is set to the result r of the splay
found(t, r, cur_node) ==
    [t |-> Tree(r.nodes, r.ret, t.length), kind |-> "Found", ptr |-> cur_node]

\* mutant: a hit returns the node without splaying it
RECURSIVE find_loop_no_splay(_, _, _)
find_loop_no_splay(t, cur_node, key) ==
    IF key = t.nodes[cur_node].key THEN
        [t |-> t, kind |-> "Found", ptr |-> cur_node]
    ELSE IF next_node(t.nodes, cur_node, key) # NULL THEN
        find_loop_no_splay(t, next_node(t.nodes, cur_node, key), key)
    ELSE [t |-> t, kind |-> "GoDown", ptr |-> cur_node]

\* mutant: a miss splays the last node of the walk
RECURSIVE find_loop_splay_on_miss(_, _, _)
find_loop_splay_on_miss(t, cur_node, key) ==
    IF key = t.nodes[cur_node].key THEN
        found(t, splay(t.nodes, cur_node), cur_node)
    ELSE IF next_node(t.nodes, cur_node, key) # NULL THEN
        find_loop_splay_on_miss(t, next_node(t.nodes, cur_node, key), key)
    ELSE [found(t, splay(t.nodes, cur_node), cur_node) EXCEPT !.kind = "GoDown"]

\* The loop of SplayTree::find_ptr from cur_node on: [t, kind, ptr].
RECURSIVE find_loop(_, _, _)
find_loop(t, cur_node, key) ==
    IF key = t.nodes[cur_node].key THEN
        found(t, splay(t.nodes, cur_node), cur_node)
    ELSE IF next_node(t.nodes, cur_node, key) # NULL THEN
        find_loop(t, next_node(t.nodes, cur_node, key), key)
    ELSE [t |-> t, kind |-> "GoDown", ptr |-> cur_node]

find_ptr(t, key) ==
    IF t.root = NULL THEN [t |-> t, kind |-> "NotFound", ptr |-> NULL]
    ELSE find_loop(t, t.root, key)

\* the match of get and get_mut over the find result f
found_only(f) == [t |-> f.t, ret |-> IF f.kind = "Found" THEN f.ptr ELSE NULL]

get_mut(t, key) == found_only(find_ptr(t, key))

get(t, key) == found_only(find_ptr(t, key))

\* Option::is_some of a result g
is_some(g) == [t |-> g.t, ret |-> g.ret # NULL]

contains_key(t, key) == is_some(get(t, key))

\* get_min, get_max and their _mut forms: root is set to the result r of the
\* splay and the root is returned
rooted(t, r) == [t |-> Tree(r.nodes, r.ret, t.length), ret |-> r.ret]

get_max_mut(t) ==
    IF t.root = NULL THEN [t |-> t, ret |-> NULL]
    ELSE rooted(t, splay(t.nodes, find_max(t.nodes, t.root)))

get_max(t) ==
    IF t.root = NULL THEN [t |-> t, ret |-> NULL]
    ELSE rooted(t, splay(t.nodes, find_max(t.nodes, t.root)))

get_min_mut(t) ==
    IF t.root = NULL THEN [t |-> t, ret |-> NULL]
    ELSE rooted(t, splay(t.nodes, find_min(t.nodes, t.root)))

get_min(t) ==
    IF t.root = NULL THEN [t |-> t, ret |-> NULL]
    ELSE rooted(t, splay(t.nodes, find_min(t.nodes, t.root)))

\* mutant: a node inserted under a parent is not counted
splayed_in_uncounted(t, r, node) ==
    [t |-> Tree(r.nodes, r.ret, t.length), ret |-> node]

\* mutant: the root is not set to the node splayed after an insertion
splayed_in_root_kept(t, r, node) ==
    [t |-> Tree(r.nodes, t.root, t.length + 1), ret |-> node]

\* SplayTree::insert_child under a parent: root is set to the result r of
\* splaying the new node, which is counted and returned
splayed_in(t, r, node) ==
    [t |-> Tree(r.nodes, r.ret, t.length + 1), ret |-> node]

\* SplayTree::insert_child under a parent, c the result of Node::insert_child
child_inserted(t, c) ==
    IF c.ret = NULL THEN [t |-> t, ret |-> NULL]
    ELSE splayed_in(t, splay(c.nodes, c.ret), c.ret)

\* SplayTree::insert_child into an empty tree, a the new node's address
root_inserted(t, a, key, value) ==
    [t |-> Tree(Put(t.nodes, a, new(key, value)), a, t.length + 1), ret |-> a]

\* SplayTree::insert_child
tree_insert_child(t, maybe_parent, key, value) ==
    IF maybe_parent # NULL THEN
        child_inserted(t, node_insert_child(t.nodes, maybe_parent, key, value))
    ELSE IF t.root = NULL THEN
        root_inserted(t, Alloc(t.nodes, key), key, value)
    ELSE [t |-> t, ret |-> NULL]

\* SplayTree::remove, the arm for two subtrees
detach_both(ns, l, r) == [ns EXCEPT ![l].parent = NULL, ![r].parent = NULL]

\* mutant: a lone left subtree becomes the root with its parent slot untouched
new_root_parent_kept(ns, l, r) ==
    IF l # NULL /\ r # NULL THEN merge(detach_both(ns, l, r), l, r)
    ELSE IF l # NULL THEN [nodes |-> ns, ret |-> l]
    ELSE IF r # NULL THEN [nodes |-> [ns EXCEPT ![r].parent = NULL], ret |-> r]
    ELSE [nodes |-> ns, ret |-> NULL]

\* mutant: a lone right subtree becomes the root with its parent slot untouched
new_root_right_parent_kept(ns, l, r) ==
    IF l # NULL /\ r # NULL THEN merge(detach_both(ns, l, r), l, r)
    ELSE IF l # NULL THEN [nodes |-> [ns EXCEPT ![l].parent = NULL], ret |-> l]
    ELSE IF r # NULL THEN [nodes |-> ns, ret |-> r]
    ELSE [nodes |-> ns, ret |-> NULL]

\* mutant: a lone right subtree is not made the root
new_root_lone_right_lost(ns, l, r) ==
    IF l # NULL /\ r # NULL THEN merge(detach_both(ns, l, r), l, r)
    ELSE IF l # NULL THEN [nodes |-> [ns EXCEPT ![l].parent = NULL], ret |-> l]
    ELSE IF r # NULL THEN [nodes |-> ns, ret |-> NULL]
    ELSE [nodes |-> ns, ret |-> NULL]

\* The match of SplayTree::remove over the removed node's subtrees l and r:
\* [nodes, ret], ret the tree's new root.
new_root(ns, l, r) ==
    IF l # NULL /\ r # NULL THEN merge(detach_both(ns, l, r), l, r)
    ELSE IF l # NULL THEN [nodes |-> [ns EXCEPT ![l].parent = NULL], ret |-> l]
    ELSE IF r # NULL THEN [nodes |-> [ns EXCEPT ![r].parent = NULL], ret |-> r]
    ELSE [nodes |-> ns, ret |-> NULL]

\* the node as it leaves the heap in a Box the caller owns: [nodes, box]
boxed(ns, node) == [nodes |-> Drop(ns, node), box |-> ns[node]]

\* mutant: the removed node keeps its child slots
into_box_uncleared(ns, node) == boxed(ns, node)

\* The end of SplayTree::remove: the node's child slots are cleared and the node
\* is handed over.
into_box(ns, node) == boxed([ns EXCEPT ![node].left = NULL, ![node].right = NULL], node)

\* SplayTree::remove after the match: m its result, b the result of into_box
removed(t, node, rt, b) ==
    [t |-> Tree(b.nodes, rt, t.length - 1), ret |-> node, box |-> b.box]

unlinked(t, node, m) == removed(t, node, m.ret, into_box(m.nodes, node))

\* SplayTree::remove of the node found, which find left at the root
remove_node(t, node) ==
    unlinked(t, node, new_root(t.nodes, t.nodes[node].left, t.nodes[node].right))

\* SplayTree::remove, g the result of get_mut: `?` returns None on a miss
remove_found(g) ==
    IF g.ret = NULL THEN [t |-> g.t, ret |-> NULL, box |-> NoBox]
    ELSE remove_node(g.t, g.ret)

\* SplayTree::remove: [t, ret, box]; box is the node handed to the caller.
remove(t, key) == remove_found(get_mut(t, key))

is_empty(t) == t.root = NULL

len(t) == t.length

\* Node::free: the addresses deallocated, in the order of deallocation. A full
\* slot is turned into a Box, free runs on the node in it, and the Box is
\* dropped at the end of the arm, which deallocates that node.
RECURSIVE free(_, _)
RECURSIVE free_box(_, _)
free_box(ns, ptr) == IF ptr = NULL THEN <<>> ELSE Append(free(ns, ptr), ptr)

free(ns, self) == free_box(ns, ns[self].left) \o free_box(ns, ns[self].right)

\* impl Drop for SplayTree: free runs on the reference root_mut() gives
drop(t) == IF t.root = NULL THEN <<>> ELSE free(t.nodes, t.root)

-----------------------------------------------------------------------------
(* Entry *)

NoEntry == [kind |-> "None", elem |-> NULL, parent |-> NULL, key |-> 0]

\* mutant: a vacant entry below a non-empty tree records the root as its parent
entry_for_parent_root(f, key) ==
    CASE f.kind = "NotFound" ->
           [t |-> f.t, entry |-> [kind |-> "Vacant", elem |-> NULL, parent |-> NULL, key |-> key]]
      [] f.kind = "GoDown" ->
           [t |-> f.t, entry |-> [kind |-> "Vacant", elem |-> NULL, parent |-> f.t.root, key |-> key]]
      [] f.kind = "Found" ->
           [t |-> f.t, entry |-> [kind |-> "Occupied", elem |-> f.ptr, parent |-> NULL, key |-> key]]

\* the match of SplayTree::entry over the find result f: [t, entry]
entry_for(f, key) ==
    CASE f.kind = "NotFound" ->
           [t |-> f.t, entry |-> [kind |-> "Vacant", elem |-> NULL, parent |-> NULL, key |-> key]]
      [] f.kind = "GoDown" ->
           [t |-> f.t, entry |-> [kind |-> "Vacant", elem |-> NULL, parent |-> f.ptr, key |-> key]]
      [] f.kind = "Found" ->
           [t |-> f.t, entry |-> [kind |-> "Occupied", elem |-> f.ptr, parent |-> NULL, key |-> key]]

\* SplayTree::entry
entry_of(t, key) == entry_for(find_ptr(t, key), key)

\* Option::unwrap of a result r: [t, ret, panic]; None panics
unwrap(r) == [t |-> r.t, ret |-> r.ret, panic |-> r.ret = NULL]

\* the result r of an arm of a resolution, with the number of calls of
\* SplayTree::insert_child and of SplayTree::find_ptr the arm makes
resolved(r, insert_child_calls, find_ptr_calls) ==
    [t |-> r.t, ret |-> r.ret, panic |-> r.panic,
     insert_child |-> insert_child_calls, find_ptr |-> find_ptr_calls]

\* an occupied arm that hands out the node found
occupied(t, elem) == resolved([t |-> t, ret |-> elem, panic |-> FALSE], 0, 0)

\* VacantEntry::insert
vacant_insert(t, e, value) ==
    resolved(unwrap(tree_insert_child(t, e.parent, e.key, value)), 1, 0)

\* mutant: an occupied entry takes the value supplied
or_insert_overwrites(t, e, value) ==
    IF e.kind = "Occupied"
    THEN occupied([t EXCEPT !.nodes[e.elem].value = value], e.elem)
    ELSE vacant_insert(t, e, value)

\* Entry::or_insert
or_insert(t, e, value) ==
    IF e.kind = "Occupied" THEN occupied(t, e.elem)
    ELSE vacant_insert(t, e, value)

\* Entry::or_insert_with; calc stands for the value the thunk returns when run,
\* which happens in the vacant arm only.
or_insert_with(t, e, calc) ==
    IF e.kind = "Occupied" THEN occupied(t, e.elem)
    ELSE vacant_insert(t, e, calc)

\* mutant: an occupied entry is resolved through insert_child as well
or_default_through_child(t, e) ==
    IF e.kind = "Occupied"
    THEN resolved(unwrap(tree_insert_child(t, e.elem, e.key, t.nodes[e.elem].value)), 1, 0)
    ELSE vacant_insert(t, e, Default)

\* Entry::or_default
or_default(t, e) ==
    IF e.kind = "Occupied" THEN occupied(t, e.elem)
    ELSE vacant_insert(t, e, Default)

\* Entry::or_insert_with_key, calc a function of the key.
or_insert_with_key(t, e, calc) ==
    IF e.kind = "Occupied" THEN occupied(t, e.elem)
    ELSE vacant_insert(t, e, calc[e.key])

\* Node::value_mut written through by the caller: the node at n holds value
value_mut(t, n, value) == [t EXCEPT !.nodes[n].value = value]

\* Entry::key
entry_key(t, e) ==
    IF e.kind = "Occupied" THEN t.nodes[e.elem].key ELSE e.key

\* mutant: f runs on a copy of the value, the stored one is left as it was
and_modify_on_copy(t, e, f) == t

\* Entry::and_modify: the tree after f ran on an occupied entry's value.
and_modify(t, e, f) ==
    IF e.kind = "Occupied"
    THEN [t EXCEPT !.nodes[e.elem].value = f[t.nodes[e.elem].value]]
    ELSE t

\* mutant: an occupied entry is set through insert_child at its own node
entry_insert_through_child(t, e, value) ==
    IF e.kind = "Occupied"
    THEN resolved(unwrap(tree_insert_child(t, e.elem, e.key, value)), 1, 0)
    ELSE vacant_insert(t, e, value)

\* mutant: an occupied entry keeps its value
entry_insert_keeps_value(t, e, value) ==
    IF e.kind = "Occupied"
    THEN occupied(t, e.elem)
    ELSE vacant_insert(t, e, value)

\* Entry::insert
entry_insert(t, e, value) ==
    IF e.kind = "Occupied"
    THEN occupied([t EXCEPT !.nodes[e.elem].value = value], e.elem)
    ELSE vacant_insert(t, e, value)

\* SplayTree::insert, e the result of entry(key)
insert_into(e, value) == entry_insert(e.t, e.entry, value)

insert(t, key, value) == insert_into(entry_of(t, key), value)

-----------------------------------------------------------------------------
(* The program: a caller making public calls on one tree *)

T == Tree(nodes, root, length)

SetTree(t) == nodes' = t.nodes /\ root' = t.root /\ length' = t.length

\* the record of a call; same: the call before it was the same call on the same
\* key; chained: the call before it was and_modify, which hands the entry on
Call(op, k, v, ret, found0, box) ==
    [op |-> op, key |-> k, val |-> v, ret |-> ret, found |-> found0, box |-> box,
     same |-> (last.op = op /\ last.key = k), chained |-> last.op = "and_modify"]

\* a call returns r = [t, ret]: the tree is as the call left it
Returns(op, k, r) ==
    /\ SetTree(r.t)
    /\ last' = Call(op, k, 0, r.ret, r.ret # NULL, NoBox)

Free(ns) == NodeIds \ DOMAIN ns

\* closures handed to or_insert_with_key and and_modify
KeyFns == {[k \in Keys |-> k % (MaxVal + 1)], [k \in Keys |-> MaxVal]}
ValueFns == {[v \in Values |-> (v + 1) % (MaxVal + 1)], [v \in Values |-> Default]}

Idle == entry.kind = "None" /\ ~panicked /\ ~dropped
Borrowed == entry.kind # "None" /\ ~panicked
\* a vacant entry can be resolved while the allocator has an address left
CanResolve == entry.kind = "Occupied" \/ Free(nodes) # {}

Init ==
    /\ nodes = <<>>
    /\ root = NULL
    /\ length = 0
    /\ entry = NoEntry
    /\ last = [op |-> "new", key |-> 0, val |-> 0, ret |-> NULL, found |-> FALSE,
               box |-> NoBox, same |-> FALSE, chained |-> FALSE]
    /\ panicked = FALSE
    /\ dropped = FALSE
    /\ freed = <<>>

Get(k) ==
    /\ Idle
    /\ Returns("get", k, get(T, k))
    /\ UNCHANGED <<entry, panicked, dropped, freed>>

GetMut(k) ==
    /\ Idle
    /\ Returns("get_mut", k, get_mut(T, k))
    /\ UNCHANGED <<entry, panicked, dropped, freed>>

ContainsReturns(k, r) ==
    /\ SetTree(r.t)
    /\ last' = Call("contains_key", k, 0, NULL, r.ret, NoBox)

ContainsKey(k) ==
    /\ Idle
    /\ ContainsReturns(k, contains_key(T, k))
    /\ UNCHANGED <<entry, panicked, dropped, freed>>

GetMax ==
    /\ Idle
    /\ Returns("get_max", 0, get_max(T))
    /\ UNCHANGED <<entry, panicked, dropped, freed>>

GetMaxMut ==
    /\ Idle
    /\ Returns("get_max_mut", 0, get_max_mut(T))
    /\ UNCHANGED <<entry, panicked, dropped, freed>>

GetMin ==
    /\ Idle
    /\ Returns("get_min", 0, get_min(T))
    /\ UNCHANGED <<entry, panicked, dropped, freed>>

GetMinMut ==
    /\ Idle
    /\ Returns("get_min_mut", 0, get_min_mut(T))
    /\ UNCHANGED <<entry, panicked, dropped, freed>>

\* the calls that return a &mut Node, which the caller may still hold
MutCalls == {"get_mut", "get_max_mut", "get_min_mut", "insert", "or_insert",
             "or_insert_with", "or_insert_with_key", "or_default", "entry_insert",
             "value_mut"}

\* The caller holds the &mut Node the last call returned and writes a value
\* through value_mut, at that node or at one it walks to over parent_mut,
\* left_mut and right_mut: in a tree any node is reached that way.
ValueMut(n, v) ==
    /\ Idle
    /\ last.op \in MutCalls /\ last.ret # NULL
    /\ SetTree(value_mut(T, n, v))
    /\ last' = Call("value_mut", nodes[n].key, v, last.ret, TRUE, NoBox)
    /\ UNCHANGED <<entry, panicked, dropped, freed>>

\* found: the key was in the tree, the entry occupied
InsertReturns(k, v, r, found0) ==
    /\ SetTree(r.t)
    /\ last' = Call("insert", k, v, r.ret, found0, NoBox)
    /\ panicked' = r.panic

Insert(k, v) ==
    /\ Idle
    /\ Free(nodes) # {} \/ find_ptr(T, k).kind = "Found"
    /\ InsertReturns(k, v, insert(T, k, v), find_ptr(T, k).kind = "Found")
    /\ UNCHANGED <<entry, dropped, freed>>

RemoveReturns(k, r) ==
    /\ SetTree(r.t)
    /\ last' = Call("remove", k, 0, r.ret, r.ret # NULL, r.box)

Remove(k) ==
    /\ Idle
    /\ RemoveReturns(k, remove(T, k))
    /\ UNCHANGED <<entry, panicked, dropped, freed>>

EntryReturns(k, r) ==
    /\ SetTree(r.t)
    /\ entry' = r.entry
    /\ last' = Call("entry", k, 0, r.entry.elem, r.entry.kind = "Occupied", NoBox)

EntryOf(k) ==
    /\ Idle
    /\ EntryReturns(k, entry_of(T, k))
    /\ UNCHANGED <<panicked, dropped, freed>>

\* a resolution consumes the entry and ends the borrow
Resolve(op, v, r) ==
    /\ SetTree(r.t)
    /\ entry' = NoEntry
    /\ last' = Call(op, entry.key, v, r.ret, entry.kind = "Occupied", NoBox)
    /\ panicked' = r.panic
    /\ UNCHANGED <<dropped, freed>>

OrInsert(v) ==
    /\ Borrowed /\ CanResolve
    /\ Resolve("or_insert", v, or_insert(T, entry, v))

OrInsertWith(v) ==
    /\ Borrowed /\ CanResolve
    /\ Resolve("or_insert_with", v, or_insert_with(T, entry, v))

OrInsertWithKey(calc) ==
    /\ Borrowed /\ CanResolve
    /\ Resolve("or_insert_with_key", calc[entry.key], or_insert_with_key(T, entry, calc))

OrDefault ==
    /\ Borrowed /\ CanResolve
    /\ Resolve("or_default", Default, or_default(T, entry))

EntryInsert(v) ==
    /\ Borrowed /\ CanResolve
    /\ Resolve("entry_insert", v, entry_insert(T, entry, v))

AndModify(f) ==
    /\ Borrowed
    /\ SetTree(and_modify(T, entry, f))
    /\ last' = Call("and_modify", entry.key, 0, entry.elem, entry.kind = "Occupied", NoBox)
    /\ UNCHANGED <<entry, panicked, dropped, freed>>

EntryKey ==
    /\ Borrowed
    /\ last' = Call("key", entry_key(T, entry), 0, entry.elem, entry.kind = "Occupied", NoBox)
    /\ UNCHANGED <<nodes, root, length, entry, panicked, dropped, freed>>

\* the entry goes out of scope unresolved
EntryDrop ==
    /\ Borrowed
    /\ entry' = NoEntry
    /\ last' = Call("entry_drop", entry.key, 0, NULL, entry.kind = "Occupied", NoBox)
    /\ UNCHANGED <<nodes, root, length, panicked, dropped, freed>>

\* The tree goes out of scope, which the borrow checker allows once no entry
\* borrows it: nodes, root and length stay as the tree held them at that moment.
DropTree ==
    /\ Idle
    /\ dropped' = TRUE
    /\ freed' = drop(T)
    /\ last' = Call("drop", 0, 0, NULL, FALSE, NoBox)
    /\ UNCHANGED <<nodes, root, length, entry, panicked>>

Next ==
    \/ \E k \in Keys : Get(k)
    \/ \E k \in Keys : GetMut(k)
    \/ \E k \in Keys : ContainsKey(k)
    \/ GetMax
    \/ GetMaxMut
    \/ GetMin
    \/ GetMinMut
    \/ \E k \in Keys, v \in Values : Insert(k, v)
    \/ \E k \in Keys : Remove(k)
    \/ \E n \in DOMAIN nodes, v \in Values : ValueMut(n, v)
    \/ \E k \in Keys : EntryOf(k)
    \/ \E v \in Values : OrInsert(v)
    \/ \E v \in Values : OrInsertWith(v)
    \/ \E calc \in KeyFns : OrInsertWithKey(calc)
    \/ OrDefault
    \/ \E v \in Values : EntryInsert(v)
    \/ \E f \in ValueFns : AndModify(f)
    \/ EntryKey
    \/ EntryDrop
    \/ DropTree

Spec == Init /\ [][Next]_vars

TypeOK ==
    /\ DOMAIN nodes \subseteq NodeIds
    /\ root \in NodeIds \cup {NULL}
    /\ length \in 0..MaxNodes
    /\ panicked \in BOOLEAN
    /\ dropped \in BOOLEAN
    /\ freed \in Seq(NodeIds)

-----------------------------------------------------------------------------
(* The scenarios: a tree filled by a fixed run of inserts, or linked node by  *)
(* node as the tests of Node build theirs, and then accessed.                *)

None == 0            \* Option::None of a key in a slice

\* the node tree_from_slice makes of a key: the key is its value too
leaf(key, parent_ptr) == Node(key, key, NULL, NULL, parent_ptr)

\* tree_from_slice, the loop's state st = [nodes, queue, root, ok]: a Some(key)
\* at the left (right) place is linked under cur_node and queued
with_left(st, cur_node, a, key) ==
    IF key = None THEN st
    ELSE [st EXCEPT !.nodes = [Put(st.nodes, a, leaf(key, cur_node)) EXCEPT ![cur_node].left = a],
                    !.queue = Append(st.queue, a)]

with_right(st, cur_node, a, key) ==
    IF key = None THEN st
    ELSE [st EXCEPT !.nodes = [Put(st.nodes, a, leaf(key, cur_node)) EXCEPT ![cur_node].right = a],
                    !.queue = Append(st.queue, a)]

\* the right place of the pair, st the state after the left one
slice_right(st, cur_node, keys, i) == with_right(st, cur_node, Alloc(st.nodes, keys[i]), keys[i])

RECURSIVE slice_loop(_, _, _)
\* one turn of the loop for cur_node, popped off the queue: the pair keys[i],
\* keys[i + 1], or keys[i] alone at the end of the slice
slice_pair(st, cur_node, keys, i) ==
    IF i + 1 > Len(keys)
    THEN with_left(st, cur_node, Alloc(st.nodes, keys[i]), keys[i])
    ELSE slice_loop(
             slice_right(with_left(st, cur_node, Alloc(st.nodes, keys[i]), keys[i]),
                         cur_node, keys, i + 1),
             keys, i + 2)

\* the loop of tree_from_slice over keys, the slice after its first element;
\* pop_front()? of an empty queue ends it with None
slice_loop(st, keys, i) ==
    IF i > Len(keys) THEN st
    ELSE IF st.queue = <<>> THEN [st EXCEPT !.ok = FALSE]
    ELSE slice_pair([st EXCEPT !.queue = Tail(st.queue)], Head(st.queue), keys, i)

slice_root(a, key) ==
    [nodes |-> Put(<<>>, a, leaf(key, NULL)), queue |-> <<a>>, root |-> a, ok |-> key # None]

\* tests::tree_from_slice: [nodes, queue, root, ok], ok FALSE for None
tree_from_slice(keys) ==
    slice_loop(slice_root(Alloc(<<>>, keys[1]), keys[1]), Tail(keys), 1)

\* the slices of the tests splay_zig_left, splay_zig_right, splay_zig_zig_left,
\* splay_zig_zig_right, splay_zig_zag_left and splay_zig_zag_right
ZigLeftSlice == <<10, 5, 12, 3, 6>>
ZigRightSlice == <<10, 5, 20, None, None, 15, 30>>
ZigZigLeftSlice == <<20, 15, 30, 13, 16, None, None, 12, 14>>
ZigZigRightSlice == <<13, 12, 15, None, None, 14, 20, None, None, 16, 30>>
ZigZagLeftSlice == <<40, 30, 50, None, None, 45, 60, 44, 46>>
ZigZagRightSlice == <<40, 30, 50, 20, 35, None, None, None, None, 34, 36>>
Slices == {ZigLeftSlice, ZigRightSlice, ZigZigLeftSlice, ZigZigRightSlice,
           ZigZagLeftSlice, ZigZagRightSlice}

\* the runs of inserts of the two scenarios
ZigScript == <<10, 5, 12, 3, 6>>
ZigZigScript == <<20, 15, 30, 13, 16, 12, 14>>
Scripts == {ZigScript, ZigZigScript}

\* the first n keys of the script s
Prefix(s, n) == {s[i] : i \in 1..n}

\* the keys of the nodes on the heap
HeapKeys == {nodes[n].key : n \in DOMAIN nodes}

\* the next insert of the script s: the tree holds the keys before it
ScriptInsert(s) ==
    /\ last.op \in {"new", "insert"}
    /\ length < Len(s)
    /\ HeapKeys = Prefix(s, length)
    /\ \E v \in Values : Insert(s[length + 1], v)

\* the access that follows the last insert of the script s
ScriptGet(s) ==
    /\ last.op = "insert"
    /\ length = Len(s)
    /\ HeapKeys = Prefix(s, length)
    /\ \E k \in HeapKeys : Get(k)

\* a tree linked by tree_from_slice; length is the number of its nodes
FromSlice(r) ==
    /\ r.ok
    /\ nodes' = r.nodes
    /\ root' = r.root
    /\ length' = Cardinality(DOMAIN r.nodes)
    /\ last' = Call("tree_from_slice", r.nodes[r.root].key, 0, r.root, TRUE, NoBox)

TreeFromSlice(keys) ==
    /\ Idle
    /\ last.op = "new"
    /\ FromSlice(tree_from_slice(keys))
    /\ UNCHANGED <<entry, panicked, dropped, freed>>

\* the access of a key of the tree just linked
SliceGet ==
    /\ last.op = "tree_from_slice"
    /\ \E k \in HeapKeys : Get(k)

\* the tests' elem.splay().map(|r| tree.root = Some(r)), r the splay's result
Splayed(elem, r) ==
    /\ nodes' = r.nodes
    /\ root' = r.ret
    /\ last' = Call("splay", nodes[elem].key, 0, r.ret, TRUE, NoBox)

TestSplay(elem) ==
    /\ Idle
    /\ last.op = "tree_from_slice"
    /\ Splayed(elem, splay(nodes, elem))
    /\ UNCHANGED <<length, entry, panicked, dropped, freed>>

ScenarioNext ==
    \/ \E s \in Scripts : ScriptInsert(s)
    \/ \E s \in Scripts : ScriptGet(s)
    \/ \E keys \in Slices : TreeFromSlice(keys)
    \/ SliceGet
    \/ \E elem \in DOMAIN nodes : TestSplay(elem)

Scenario == Init /\ [][ScenarioNext]_vars

\* Node::splay run one iteration of its loop at a time on the trees the tests
\* link. While the loop runs, last.op is "splaying" and last.ret is self. A tree
\* of at most MaxResplay nodes is splayed again and again, a larger one once.
BeginSplay(elem) ==
    /\ Idle
    /\ last.op = "tree_from_slice" \/ (last.op = "splay" /\ length <= MaxResplay)
    /\ last' = Call("splaying", nodes[elem].key, 0, elem, TRUE, NoBox)
    /\ UNCHANGED <<nodes, root, length, entry, panicked, dropped, freed>>

\* r is the result of self.splay_step(): on Some(root) the loop returns and the
\* caller stores the root, on None it goes round again
Stepped(r, self) ==
    /\ nodes' = r.nodes
    /\ IF r.ret # NULL
       THEN /\ root' = r.ret
            /\ last' = Call("splay", nodes[self].key, 0, r.ret, TRUE, NoBox)
       ELSE UNCHANGED <<root, last>>

SplayStep ==
    /\ last.op = "splaying"
    /\ Stepped(splay_step(nodes, last.ret), last.ret)
    /\ UNCHANGED <<length, entry, panicked, dropped, freed>>

SplayingNext ==
    \/ \E keys \in Slices : TreeFromSlice(keys)
    \/ \E elem \in DOMAIN nodes : BeginSplay(elem)
    \/ SplayStep

\* a loop that has begun takes its next iteration
Splaying == Init /\ [][SplayingNext]_vars /\ WF_vars(SplayStep)

-----------------------------------------------------------------------------
(* What the properties speak of *)

\* the tree after the step, in action formulas
TP == Tree(nodes', root', length')

Kids(ns, n) == {c \in {ns[n].left, ns[n].right} : c # NULL /\ c \in DOMAIN ns}

\* the nodes reached from the set S over left and right slots in at most i hops
RECURSIVE ReachN(_, _, _)
ReachN(ns, S, i) ==
    IF i = 0 THEN S
    ELSE ReachN(ns, S \cup UNION {Kids(ns, n) : n \in S}, i - 1)

Reach(ns, S) == ReachN(ns, S \cap DOMAIN ns, Cardinality(DOMAIN ns))

\* the whole subtree hanging from the slot value p (empty for an empty slot)
Subtree(ns, p) == Reach(ns, {p} \ {NULL})

Reachable(t) == Subtree(t.nodes, t.root)

KeysOf(t) == {t.nodes[n].key : n \in Reachable(t)}

HasKey(t, k) == k \in KeysOf(t)

ValueOf(t, k) == t.nodes[CHOOSE n \in Reachable(t) : t.nodes[n].key = k].value

\* the (key, value) pairs of the tree and its shape as the children of each key
Contents(t) == {<<t.nodes[n].key, t.nodes[n].value>> : n \in Reachable(t)}

-----------------------------------------------------------------------------
(* C1 *)

\* C1: BST order. In every reachable tree, for every node, all keys of its whole
\* left subtree are less than its key and all keys of its whole right subtree
\* are greater.
C1_BSTOrder ==
    \A n \in DOMAIN nodes :
        /\ \A m \in Subtree(nodes, nodes[n].left) : nodes[m].key < nodes[n].key
        /\ \A m \in Subtree(nodes, nodes[n].right) : nodes[m].key > nodes[n].key

\* a tree where a node has a grandchild on the inner side of a child, so that
\* the whole subtree says more than the two children do
C1_Witness ==
    /\ last.op \in {"insert", "remove", "get"}
    /\ \E n \in DOMAIN nodes :
          /\ nodes[n].left # NULL
          /\ nodes[nodes[n].left].right # NULL
          /\ nodes[n].right # NULL

(* C2 *)

\* C2: back-reference consistency. After every public call, every node with a
\* parent is the left or right child of that parent, and every child named by a
\* left or right slot names its holder in its parent slot.
C2_BackRefs ==
    \A n \in DOMAIN nodes :
        /\ nodes[n].parent # NULL =>
              /\ nodes[n].parent \in DOMAIN nodes
              /\ nodes[nodes[n].parent].left = n \/ nodes[nodes[n].parent].right = n
        /\ nodes[n].left # NULL =>
              nodes[n].left \in DOMAIN nodes /\ nodes[nodes[n].left].parent = n
        /\ nodes[n].right # NULL =>
              nodes[n].right \in DOMAIN nodes /\ nodes[nodes[n].right].parent = n

\* after a removal that merged two subtrees, the tree still has a node two
\* levels below the root
C2_Witness ==
    /\ last.op = "remove" /\ last.found
    /\ root # NULL
    /\ \E n \in DOMAIN nodes :
          nodes[n].parent # NULL /\ nodes[nodes[n].parent].parent = root

(* C3 *)

\* C3: size invariant. After every call len() is the number of nodes reachable
\* from the root, and is_empty() is true exactly when len() is 0.
C3_Size ==
    /\ len(T) = Cardinality(Reachable(T))
    /\ is_empty(T) <=> len(T) = 0

\* the tree emptied again by the removal of its last node
C3_Witness == last.op = "remove" /\ last.found /\ len(T) = 0 /\ is_empty(T)

(* C4 *)

\* C4: root well-formedness. After every public call the root slot is empty or
\* names a parentless node, that node is the only parentless node the tree owns,
\* no node is reached from its own children, and every node the tree owns is
\* reached from the root.
C4_RootWellFormed ==
    /\ root # NULL => root \in DOMAIN nodes /\ nodes[root].parent = NULL
    /\ \A n \in DOMAIN nodes : nodes[n].parent = NULL => n = root
    /\ \A n \in DOMAIN nodes : n \notin Reach(nodes, Kids(nodes, n))
    /\ Reachable(T) = DOMAIN nodes

\* a lookup hit in a four-node tree, the node found now being the root
C4_Witness ==
    /\ last.op \in {"get", "get_mut"} /\ last.found
    /\ Cardinality(DOMAIN nodes) = 4
    /\ last.ret = root

(* C5 *)

\* C5: splay-to-root. After get(k) or get_mut(k) on a key present in the tree,
\* and after insert(k, v) for any k, the root is the node whose key is k (and it
\* is the node returned).
C5_SplayToRoot ==
    [][ ( \/ last'.op \in {"get", "get_mut"} /\ HasKey(T, last'.key)
          \/ last'.op = "insert" )
        => /\ root' # NULL
           /\ nodes'[root'].key = last'.key
           /\ last'.ret = root' ]_vars

\* a hit in a four-node tree by a call that does not repeat the call before it:
\* the key found is at the root, between two subtrees
C5_Witness ==
    /\ last.op = "get" /\ last.found /\ ~last.same
    /\ Cardinality(DOMAIN nodes) = 4
    /\ nodes[root].key = last.key
    /\ nodes[root].left # NULL /\ nodes[root].right # NULL

(* C6 *)

\* C6: round trip. In any reachable tree, after insert(k, v) a get(k) yields a
\* node with key k and value v; after remove(k) a get(k) yields absent.
C6_RoundTrip ==
    /\ last.op = "insert" =>
          LET g == get(T, last.key)
          IN /\ g.ret # NULL
             /\ g.t.nodes[g.ret].key = last.key
             /\ g.t.nodes[g.ret].value = last.val
    /\ last.op = "remove" => get(T, last.key).ret = NULL

\* the removal of a present key that leaves other keys in the tree
C6_Witness == last.op = "remove" /\ last.found /\ len(T) >= 2

(* C7 *)

\* C7: overwrite idempotence. insert(k, v1) followed by insert(k, v2) leaves
\* len() as it was after the first insert, keeps exactly one node with key k,
\* and a following get(k) yields v2.
C7_Overwrite ==
    [][ (last.op = "insert" /\ last'.op = "insert" /\ last'.key = last.key)
        => /\ len(TP) = len(T)
           /\ Cardinality({n \in DOMAIN nodes' : nodes'[n].key = last'.key}) = 1
           /\ LET g == get(TP, last'.key)
              IN g.ret # NULL /\ g.t.nodes[g.ret].value = last'.val ]_vars

\* a second insert of the same key that changed the value stored
C7_Witness ==
    /\ last.op = "insert" /\ last.same /\ last.found
    /\ len(T) >= 2
    /\ last.val # Default

(* C8 *)

\* C8: remove(k) for a key present in the tree returns a detached node whose key
\* is k and whose value is the value stored for k, its parent, left and right
\* slots empty; len() decreases by exactly one and k is no longer found.
C8_RemovePresent ==
    [][ (last'.op = "remove" /\ HasKey(T, last'.key))
        => /\ last'.ret # NULL
           /\ last'.box.key = last'.key
           /\ last'.box.value = ValueOf(T, last'.key)
           /\ last'.box.parent = NULL
           /\ last'.box.left = NULL
           /\ last'.box.right = NULL
           /\ len(TP) = len(T) - 1
           /\ ~HasKey(TP, last'.key)
           /\ get(TP, last'.key).ret = NULL ]_vars

\* a node removed from between two subtrees, carrying a value other than the
\* default
C8_Witness ==
    /\ last.op = "remove" /\ last.found
    /\ last.box.key = last.key /\ last.box.value # Default
    /\ \E a, b \in DOMAIN nodes : nodes[a].key < last.key /\ nodes[b].key > last.key

(* C9 *)

\* C9: absence leaves the tree untouched. get, get_mut, contains_key and remove
\* for a key not in the tree, and get_min / get_max (and their _mut forms) on an
\* empty tree, return absent without panicking and leave the heap, the root and
\* len() exactly as before: no splay on a miss.
C9_AbsenceUntouched ==
    [][ ( \/ /\ last'.op \in {"get", "get_mut", "contains_key", "remove"}
             /\ ~HasKey(T, last'.key)
          \/ /\ last'.op \in {"get_min", "get_min_mut", "get_max", "get_max_mut"}
             /\ is_empty(T) )
        => /\ ~last'.found
           /\ last'.ret = NULL
           /\ TP = T
           /\ ~panicked' ]_vars

\* a miss whose walk ended below the root: the key missed lies between the keys
\* of the root and of one of its children
C9_Witness ==
    /\ last.op \in {"get", "remove"} /\ ~last.found
    /\ root # NULL
    /\ \E c \in Kids(nodes, root) :
          \/ nodes[root].key < last.key /\ last.key < nodes[c].key
          \/ nodes[c].key < last.key /\ last.key < nodes[root].key

(* C10 *)

MinKey(t) == CHOOSE k \in KeysOf(t) : \A j \in KeysOf(t) : k <= j
MaxKeyOf(t) == CHOOSE k \in KeysOf(t) : \A j \in KeysOf(t) : k >= j

\* C10: get_min / get_min_mut (get_max / get_max_mut) on a non-empty tree return
\* the node with the smallest (largest) key of the whole tree, and afterwards
\* that node is the root.
C10_MinMax ==
    [][ /\ (last'.op \in {"get_min", "get_min_mut"} /\ ~is_empty(T))
           => /\ last'.ret # NULL
              /\ last'.ret = root'
              /\ nodes'[root'].key = MinKey(T)
              /\ nodes'[root'].key = MinKey(TP)
        /\ (last'.op \in {"get_max", "get_max_mut"} /\ ~is_empty(T))
           => /\ last'.ret # NULL
              /\ last'.ret = root'
              /\ nodes'[root'].key = MaxKeyOf(T)
              /\ nodes'[root'].key = MaxKeyOf(TP) ]_vars

\* get_min on a four-node tree: the minimum is at the root, nothing to its left
C10_Witness ==
    /\ last.op = "get_min" /\ last.found
    /\ Cardinality(DOMAIN nodes) = 4
    /\ nodes[root].left = NULL

(* C11 *)

\* the largest key of the subtree hanging from the slot value p
MaxKeyBelow(ns, p) ==
    CHOOSE k \in {ns[n].key : n \in Subtree(ns, p)} :
        \A n \in Subtree(ns, p) : ns[n].key <= k

\* the subtree hanging from p as the heap holds it, the parent slot of p aside
Shape(ns, p) ==
    [n \in Subtree(ns, p) |-> IF n = p THEN [ns[n] EXCEPT !.parent = NULL] ELSE ns[n]]

\* remove(k) where g, the result of the find, left k's node at the root between
\* the subtrees l and r
TwoChildRemoval(g, l, r) ==
    /\ root' # NULL
    /\ nodes'[root'].parent = NULL
    /\ root' \in Subtree(g.t.nodes, l)
    /\ nodes'[root'].key = MaxKeyBelow(g.t.nodes, l)
    /\ \A k \in KeysOf(T) : k < last'.key => k <= nodes'[root'].key
    /\ nodes'[root'].right = r
    /\ nodes'[r].parent = root'
    /\ Shape(nodes', r) = Shape(g.t.nodes, r)
    /\ KeysOf(TP) = KeysOf(T) \ {last'.key}

\* C11: two-child deletion. When remove(k) finds the node for k, splayed to the
\* root, with a left and a right subtree, the root after the removal is the
\* node of the left subtree with the largest key, the largest key of the tree
\* smaller than k, and the former right subtree hangs unchanged from its right
\* slot.
C11_TwoChildRemoval ==
    [][ (last'.op = "remove" /\ HasKey(T, last'.key))
        => LET g == get_mut(T, last'.key)
           IN (g.t.nodes[g.ret].left # NULL /\ g.t.nodes[g.ret].right # NULL)
              => TwoChildRemoval(g, g.t.nodes[g.ret].left, g.t.nodes[g.ret].right) ]_vars

\* a removal from between two subtrees in a four-node tree: the new root, the
\* largest key below the removed one, has a left and a right subtree
C11_Witness ==
    /\ last.op = "remove" /\ last.found
    /\ Cardinality(DOMAIN nodes) = 3
    /\ nodes[root].key < last.key
    /\ nodes[root].left # NULL
    /\ nodes[root].right # NULL /\ nodes[nodes[root].right].key > last.key

(* C12 *)

\* how many times the address n was deallocated
TimesFreed(n) == Cardinality({i \in DOMAIN freed : freed[i] = n})

\* C12: teardown. Once the tree is dropped, every node it owned, the root
\* included, has been deallocated exactly once, and nothing else has been.
C12_Teardown ==
    dropped => /\ \A n \in DOMAIN nodes : TimesFreed(n) = 1
               /\ \A i \in DOMAIN freed : freed[i] \in DOMAIN nodes

(* C13 *)

OrInsertCalls == {"or_insert", "or_insert_with", "or_insert_with_key", "or_default"}

\* C13: insert-if-absent resolutions. or_insert(v), or_insert_with(f),
\* or_insert_with_key(f) and or_default() on entry(k) return the node with key
\* k. If k was present the tree is as it was: value and len() unchanged, the
\* value supplied discarded. If k was absent the tree holds one pair more,
\* k with v, f(), f(&k) or the default, and len() has grown by one.
C13_OrInsert ==
    [][ last'.op \in OrInsertCalls
        => /\ last'.key = entry.key
           /\ last'.ret # NULL
           /\ nodes'[last'.ret].key = entry.key
           /\ last'.op = "or_default" => last'.val = Default
           /\ last'.op = "or_insert_with_key" => \E calc \in KeyFns : last'.val = calc[entry.key]
           /\ IF HasKey(T, entry.key)
              THEN /\ ValueOf(TP, entry.key) = ValueOf(T, entry.key)
                   /\ Contents(TP) = Contents(T)
                   /\ len(TP) = len(T)
              ELSE /\ ValueOf(TP, entry.key) = last'.val
                   /\ Contents(TP) = Contents(T) \cup {<<entry.key, last'.val>>}
                   /\ len(TP) = len(T) + 1 ]_vars

\* or_insert on an occupied entry with a value other than the one stored, which
\* is discarded
C13_Witness ==
    /\ last.op = "or_insert" /\ last.found
    /\ nodes[last.ret].key = last.key
    /\ nodes[last.ret].value # last.val
    /\ len(T) >= 2

(* C14 *)

\* the pairs of the tree other than the one of key k
Others(t, k) == {p \in Contents(t) : p[1] # k}

\* C14: and_modify(f) applies f to the stored value exactly when the key is
\* present and never inserts: on a present key the value becomes f(old) and
\* nothing else changes, on an absent key the tree is untouched; either way the
\* entry is handed on as it was. An or_insert(d) chained after it then leaves
\* the present key's value, f(old), alone and stores d itself for an absent key.
C14_AndModify ==
    [][ /\ \A f \in ValueFns :
              AndModify(f)
              => /\ entry' = entry
                 /\ len(TP) = len(T)
                 /\ IF HasKey(T, entry.key)
                    THEN /\ ValueOf(TP, entry.key) = f[ValueOf(T, entry.key)]
                         /\ Others(TP, entry.key) = Others(T, entry.key)
                         /\ KeysOf(TP) = KeysOf(T)
                    ELSE TP = T
        /\ (last'.op = "or_insert" /\ last'.chained)
           => IF HasKey(T, entry.key)
              THEN /\ ValueOf(TP, entry.key) = ValueOf(T, entry.key)
                   /\ len(TP) = len(T)
              ELSE /\ ValueOf(TP, entry.key) = last'.val
                   /\ len(TP) = len(T) + 1 ]_vars

\* entry(k).and_modify(f).or_insert(d) for an absent k and a d that every f
\* would change: d is stored as given
C14_Witness ==
    /\ last.op = "or_insert" /\ last.chained /\ ~last.found
    /\ nodes[last.ret].key = last.key
    /\ nodes[last.ret].value = last.val
    /\ \A f \in ValueFns : f[last.val] # last.val
    /\ len(T) >= 2

(* C15 *)

\* C15: unconditional set. insert(k, v) and entry(k).insert(v) return the node
\* with key k, whose value is now v. For a present k no node is allocated and
\* len() is unchanged; for an absent k one node is created and len() grows by
\* one. The other pairs of the tree are as before.
C15_Set ==
    [][ last'.op \in {"insert", "entry_insert"}
        => /\ last'.ret # NULL
           /\ last'.ret \in Reachable(TP)
           /\ nodes'[last'.ret].key = last'.key
           /\ nodes'[last'.ret].value = last'.val
           /\ last'.op = "entry_insert" => last'.key = entry.key
           /\ Others(TP, last'.key) = Others(T, last'.key)
           /\ IF HasKey(T, last'.key)
              THEN DOMAIN nodes' = DOMAIN nodes /\ len(TP) = len(T)
              ELSE /\ Cardinality(DOMAIN nodes') = Cardinality(DOMAIN nodes) + 1
                   /\ len(TP) = len(T) + 1 ]_vars

\* entry(k).insert(v) on an occupied entry: the node found holds v
C15_Witness ==
    /\ last.op = "entry_insert" /\ last.found
    /\ nodes[last.ret].key = last.key
    /\ nodes[last.ret].value = last.val /\ last.val # Default
    /\ len(T) >= 3

(* C16 *)

\* p is where a walk for the absent key k falls off the tree: every node above
\* p sends k towards p, and the slot of p on k's side is empty
Terminal(t, p, k) ==
    /\ p \in Reachable(t)
    /\ \A a \in Reachable(t) :
          /\ p \in Subtree(t.nodes, t.nodes[a].left) => k < t.nodes[a].key
          /\ p \in Subtree(t.nodes, t.nodes[a].right) => k > t.nodes[a].key
    /\ k < t.nodes[p].key => t.nodes[p].left = NULL
    /\ k > t.nodes[p].key => t.nodes[p].right = NULL
    /\ k # t.nodes[p].key

\* C16: entry classification. entry(k) is Occupied exactly when k is in the
\* tree, and k's node is then the root; it is a parentless vacant entry exactly
\* when the tree is empty; otherwise it is a vacant entry whose parent is the
\* terminal node of the find walk for k. key() returns k in every case, and a
\* vacant entry, obtained and then used for key() or and_modify only, leaves the
\* tree's shape, contents and len() unchanged.
C16_EntryClasses ==
    [][ /\ last'.op = "entry"
           => /\ entry'.key = last'.key
              /\ entry'.kind \in {"Occupied", "Vacant"}
              /\ entry'.kind = "Occupied" <=> HasKey(T, last'.key)
              /\ entry'.kind = "Occupied"
                 => /\ entry'.elem = root'
                    /\ root' # NULL
                    /\ nodes'[root'].key = last'.key
              /\ (entry'.kind = "Vacant" /\ entry'.parent = NULL) <=> is_empty(T)
              /\ (entry'.kind = "Vacant" /\ entry'.parent # NULL)
                 => Terminal(T, entry'.parent, last'.key)
              /\ entry'.kind = "Vacant" => TP = T
        /\ last'.op = "key"
           => last'.key = entry.key /\ entry' = entry /\ TP = T
        /\ (last'.op \in {"key", "and_modify", "entry_drop"} /\ entry.kind = "Vacant")
           => TP = T ]_vars

\* a vacant entry whose parent lies below the root, and_modify just tried on it
C16_Witness ==
    /\ last.op = "and_modify" /\ ~last.found
    /\ entry.kind = "Vacant"
    /\ entry.parent # NULL /\ entry.parent # root
    /\ Terminal(T, entry.parent, entry.key)

(* C17 *)

\* the key in the slot value p, None for an empty slot
KeyAt(ns, p) == IF p = NULL THEN None ELSE ns[p].key

\* the shape of a tree: the key at its root, and for every key the keys of its
\* left and right children
ShapeOf(t) ==
    [root |-> KeyAt(t.nodes, t.root),
     kids |-> {<<t.nodes[n].key, KeyAt(t.nodes, t.nodes[n].left), KeyAt(t.nodes, t.nodes[n].right)>> :
                  n \in Reachable(t)}]

\* the address of the node with key k
NodeOf(ns, k) == CHOOSE n \in DOMAIN ns : ns[n].key = k

\* root 5 with left child 3 and right child 10, 10 with left child 6 and right
\* child 12
ZigResult ==
    [root |-> 5,
     kids |-> {<<5, 3, 10>>, <<3, None, None>>, <<10, 6, 12>>, <<6, None, None>>,
               <<12, None, None>>}]

\* the access of key 5 is a Zig step under the root 10 and leaves ZigResult
ZigOfFive ==
    /\ splay_type(nodes, NodeOf(nodes, 5)) = "Zig"
    /\ nodes[NodeOf(nodes, 5)].parent = root
    /\ nodes[root].key = 10
    /\ ShapeOf(TP) = ZigResult

\* C17 as stated: from an empty tree, insert 10, 5, 12, 3, 6 in that order,
\* then access key 5; the step applied to 5 is a Zig, its parent 10 being the
\* root, and the tree is then root 5 with children 3 and 10, 10 with children
\* 6 and 12.
C17_AsStated ==
    [][ (last.op = "insert" /\ HeapKeys = Prefix(ZigScript, 5)
         /\ last'.op = "get" /\ last'.key = 5)
        => ZigOfFive ]_vars

\* 10 at the root with children 5 and 12, 5 with children 3 and 6: the order of
\* the keys 10, 5, 12, 3, 6 level by level, as splay_zig_left links them
ZigStart ==
    [root |-> 10,
     kids |-> {<<10, 5, 12>>, <<5, 3, 6>>, <<3, None, None>>, <<6, None, None>>,
               <<12, None, None>>}]

\* C17, amended: starting from the tree that holds 10, 5, 12, 3, 6 level by
\* level (10 at the root, 5 and 12 its children, 3 and 6 the children of 5),
\* an access of key 5, by get or by the splay of its node, is a Zig step, its
\* parent 10 being the root, and leaves root 5 with children 3 and 10, 10 with
\* children 6 and 12.
C17_Zig ==
    [][ (last.op = "tree_from_slice" /\ ShapeOf(T) = ZigStart
         /\ last'.op \in {"get", "splay"} /\ last'.key = 5)
        => ZigOfFive ]_vars

\* get(5) on the tree linked level by level (a node's value is its key there):
\* 5 is at the root above 3 and 10
C17_Witness ==
    /\ last.op = "get" /\ last.key = 5 /\ last.found
    /\ \A n \in DOMAIN nodes : nodes[n].value = nodes[n].key
    /\ ShapeOf(T) = ZigResult

(* C18 *)

\* root 13 with children 12 and 15, 15 with children 14 and 20, 20 with
\* children 16 and 30
ZigZigResult ==
    [root |-> 13,
     kids |-> {<<13, 12, 15>>, <<12, None, None>>, <<15, 14, 20>>, <<14, None, None>>,
               <<20, 16, 30>>, <<16, None, None>>, <<30, None, None>>}]

\* the access of key 13 starts with a Zig-Zig step and leaves ZigZigResult
ZigZigOfThirteen ==
    /\ splay_type(nodes, NodeOf(nodes, 13)) = "ZigZig"
    /\ ShapeOf(TP) = ZigZigResult

\* C18 as stated: from an empty tree, insert 20, 15, 30, 13, 16, 12, 14 in that
\* order, then access key 13; the step applied to 13 is a Zig-Zig, and the tree
\* is then root 13 with children 12 and 15, 15 with children 14 and 20, 20 with
\* children 16 and 30.
C18_AsStated ==
    [][ (last.op = "insert" /\ HeapKeys = Prefix(ZigZigScript, 7)
         /\ last'.op = "get" /\ last'.key = 13)
        => ZigZigOfThirteen ]_vars

\* 20 at the root with children 15 and 30, 15 with children 13 and 16, 13 with
\* children 12 and 14: the keys level by level, as splay_zig_zig_left links them
ZigZigStart ==
    [root |-> 20,
     kids |-> {<<20, 15, 30>>, <<15, 13, 16>>, <<30, None, None>>, <<13, 12, 14>>,
               <<16, None, None>>, <<12, None, None>>, <<14, None, None>>}]

\* C18, amended: starting from the tree that holds 20, 15, 30, 13, 16, 12, 14
\* level by level (20 at the root, 15 and 30 its children, 13 and 16 the
\* children of 15, 12 and 14 the children of 13), an access of key 13, by get or
\* by the splay of its node, is a Zig-Zig step and leaves root 13 with children
\* 12 and 15, 15 with children 14 and 20, 20 with children 16 and 30.
C18_ZigZig ==
    [][ (last.op = "tree_from_slice" /\ ShapeOf(T) = ZigZigStart
         /\ last'.op \in {"get", "splay"} /\ last'.key = 13)
        => ZigZigOfThirteen ]_vars

\* the splay of 13 in the tree linked level by level (a node's value is its key
\* there): 13 is at the root above 12 and 15
C18_Witness ==
    /\ last.op = "splay" /\ last.key = 13
    /\ \A n \in DOMAIN nodes : nodes[n].value = nodes[n].key
    /\ ShapeOf(T) = ZigZigResult

(* C19 *)

ResolveCalls == {"or_insert", "or_insert_with", "or_insert_with_key", "or_default",
                 "entry_insert"}

\* the resolution op of the entry e of the tree t with the value v (for the
\* closures: the value they return)
Resolution(op, t, e, v) ==
    CASE op = "or_insert" -> or_insert(t, e, v)
      [] op = "or_insert_with" -> or_insert_with(t, e, v)
      [] op = "or_insert_with_key" -> or_insert_with_key(t, e, [k \in {e.key} |-> v])
      [] op = "or_default" -> or_default(t, e)
      [] op = "entry_insert" -> entry_insert(t, e, v)

\* C19 as stated: every resolution of an entry, occupied or vacant, costs
\* exactly one call of the tree's insert_child and no find traversal.
C19_AsStated ==
    [][ last'.op \in ResolveCalls
        => /\ Resolution(last'.op, T, entry, last'.val).t = TP
           /\ Resolution(last'.op, T, entry, last'.val).insert_child = 1
           /\ Resolution(last'.op, T, entry, last'.val).find_ptr = 0 ]_vars

\* C19, amended: every resolution of a vacant entry costs exactly one call of
\* the tree's insert_child, which allocates one node and adds one to len();
\* every resolution of an occupied entry costs none, allocates nothing and
\* leaves len() alone; no resolution performs a find traversal.
C19_OneInsertIfVacant ==
    [][ last'.op \in ResolveCalls
        => /\ Resolution(last'.op, T, entry, last'.val).t = TP
           /\ Resolution(last'.op, T, entry, last'.val).find_ptr = 0
           /\ Resolution(last'.op, T, entry, last'.val).insert_child
                 = IF entry.kind = "Vacant" THEN 1 ELSE 0
           /\ Cardinality(DOMAIN nodes' \ DOMAIN nodes)
                 = Resolution(last'.op, T, entry, last'.val).insert_child
           /\ DOMAIN nodes \subseteq DOMAIN nodes'
           /\ len(TP) = len(T) + Resolution(last'.op, T, entry, last'.val).insert_child ]_vars

\* or_default on an occupied entry: the node found is handed out, nothing is
\* inserted
C19_Witness ==
    /\ last.op = "or_default" /\ last.found
    /\ nodes[last.ret].key = last.key
    /\ nodes[last.ret].value # Default
    /\ len(T) >= 2

(* C20 *)

\* the heaps ns and ms differ at the nodes of S at most
SameBut(ns, ms, S) ==
    /\ DOMAIN ms = DOMAIN ns
    /\ \A m \in DOMAIN ns \ S : ms[m] = ns[m]
    /\ \A m \in S \ {NULL} : ms[m].key = ns[m].key /\ ms[m].value = ns[m].value

\* n the left child of the parentless p, A and B the subtrees of n, C the right
\* one of p: in ms n is parentless above A and p, p above B and C
ZigLeftDone(ns, ms, n, p, A, B, C) ==
    /\ ms[n].parent = NULL /\ ms[n].left = A /\ ms[n].right = p
    /\ ms[p].parent = n /\ ms[p].left = B /\ ms[p].right = C
    /\ A # NULL => ms[A].parent = n
    /\ B # NULL => ms[B].parent = p
    /\ C # NULL => ms[C].parent = p
    /\ SameBut(ns, ms, {n, p, B})
    /\ ms = rotate_right(ns, p)

\* the mirror image: n the right child of p, A the left subtree of p
ZigRightDone(ns, ms, n, p, A, B, C) ==
    /\ ms[n].parent = NULL /\ ms[n].left = p /\ ms[n].right = C
    /\ ms[p].parent = n /\ ms[p].left = A /\ ms[p].right = B
    /\ A # NULL => ms[A].parent = p
    /\ B # NULL => ms[B].parent = p
    /\ C # NULL => ms[C].parent = n
    /\ SameBut(ns, ms, {n, p, B})
    /\ ms = rotate_left(ns, p)

\* the step r = splay_step(ns, n) of a child n of the parentless node p
ZigDone(ns, r, n, p) ==
    /\ r.ret = n
    /\ IF ns[p].left = n
       THEN ZigLeftDone(ns, r.nodes, n, p, ns[n].left, ns[n].right, ns[p].right)
       ELSE ZigRightDone(ns, r.nodes, n, p, ns[p].left, ns[n].left, ns[n].right)

\* C20: Zig step. In every tree, a splay step at n is classified Zig exactly
\* when n has a parent p and p is parentless, and the step is then one rotation
\* at p, right if n is a left child, left otherwise: for n the left child with
\* n.left = A, n.right = B, p.right = C it leaves n parentless with n.left = A,
\* n.right = p, p.left = B, p.right = C, every parent slot in agreement and
\* nothing else changed; the right-child case is the mirror image.
C20_ZigStep ==
    \A n \in DOMAIN nodes :
        /\ splay_type(nodes, n) = "Zig"
              <=> (nodes[n].parent # NULL /\ nodes[nodes[n].parent].parent = NULL)
        /\ splay_type(nodes, n) = "Zig"
              => ZigDone(nodes, splay_step(nodes, n), n, nodes[n].parent)

\* the splay of 20 in the tree of splay_zig_right, one Zig step: 20 is at the
\* root above 10 and 30, 10 above 5 and the moved subtree 15
C20_Witness ==
    /\ last.op = "splay" /\ last.key = 20 /\ last.ret = root
    /\ ShapeOf(T) = [root |-> 20,
                     kids |-> {<<20, 10, 30>>, <<10, 5, 15>>, <<5, None, None>>,
                               <<15, None, None>>, <<30, None, None>>}]

(* C21 *)

\* in ms the node n is where g was in ns: in the slot of g's parent that held
\* g, or parentless as g was
InPlaceOf(ns, ms, n, g) ==
    /\ ms[n].parent = ns[g].parent
    /\ ns[g].parent # NULL
       => /\ ns[ns[g].parent].left = g => ms[ns[g].parent].left = n
          /\ ns[ns[g].parent].right = g => ms[ns[g].parent].right = n

\* the slot value c, if full, names a node whose parent is p
Under(ms, c, p) == c # NULL => ms[c].parent = p

\* n the left child of p, p the left child of g; A, B the subtrees of n, C the
\* right one of p, D the right one of g
ZigZigLeftDone(ns, ms, n, p, g, A, B, C, D) ==
    /\ InPlaceOf(ns, ms, n, g)
    /\ ms[n].left = A /\ ms[n].right = p /\ ms[p].parent = n
    /\ ms[p].left = B /\ ms[p].right = g /\ ms[g].parent = p
    /\ ms[g].left = C /\ ms[g].right = D
    /\ Under(ms, A, n) /\ Under(ms, B, p) /\ Under(ms, C, g) /\ Under(ms, D, g)
    /\ SameBut(ns, ms, {n, p, g, B, C, ns[g].parent})
    /\ ms = rotate_right(rotate_right(ns, g), p)

\* the mirror image: n the right child of p, p the right child of g; A the left
\* subtree of g, B the left one of p, C and D the subtrees of n
ZigZigRightDone(ns, ms, n, p, g, A, B, C, D) ==
    /\ InPlaceOf(ns, ms, n, g)
    /\ ms[n].left = p /\ ms[n].right = D /\ ms[p].parent = n
    /\ ms[p].left = g /\ ms[p].right = C /\ ms[g].parent = p
    /\ ms[g].left = A /\ ms[g].right = B
    /\ Under(ms, A, g) /\ Under(ms, B, g) /\ Under(ms, C, p) /\ Under(ms, D, n)
    /\ SameBut(ns, ms, {n, p, g, B, C, ns[g].parent})
    /\ ms = rotate_left(rotate_left(ns, g), p)

\* the step r = splay_step(ns, n), n under p under g on the same side
ZigZigDone(ns, r, n, p, g) ==
    /\ r.ret = (IF ns[g].parent = NULL THEN n ELSE NULL)
    /\ IF ns[p].left = n
       THEN ZigZigLeftDone(ns, r.nodes, n, p, g,
                           ns[n].left, ns[n].right, ns[p].right, ns[g].right)
       ELSE ZigZigRightDone(ns, r.nodes, n, p, g,
                            ns[g].left, ns[p].left, ns[n].left, ns[n].right)

\* n has a parent p that has a parent, and n and p are children on the same side
SameSide(ns, n) ==
    /\ ns[n].parent # NULL
    /\ ns[ns[n].parent].parent # NULL
    /\ \/ ns[ns[n].parent].left = n /\ ns[ns[ns[n].parent].parent].left = ns[n].parent
       \/ ns[ns[n].parent].right = n /\ ns[ns[ns[n].parent].parent].right = ns[n].parent

\* C21: Zig-Zig step. In every tree, a splay step at n is a Zig-Zig exactly when
\* n and its parent p are both left or both right children (p not the root),
\* and the step then rotates the grandparent g and then p, both the same way:
\* for the left-left case with n.left = A, n.right = B, p.right = C, g.right = D
\* it leaves n in g's former position with n.left = A, n.right = p, p.left = B,
\* p.right = g, g.left = C, g.right = D; the right-right case is the mirror
\* image.
C21_ZigZigStep ==
    \A n \in DOMAIN nodes :
        /\ splay_type(nodes, n) = "ZigZig" <=> SameSide(nodes, n)
        /\ splay_type(nodes, n) = "ZigZig"
              => ZigZigDone(nodes, splay_step(nodes, n), n, nodes[n].parent,
                            nodes[nodes[n].parent].parent)

\* the splay of 20 in the tree of splay_zig_zig_right, one right-right step:
\* 20 is at the root above 15 and 30, 15 above 13 and 16, 13 above 12 and 14
C21_Witness ==
    /\ last.op = "splay" /\ last.key = 20 /\ last.ret = root
    /\ ShapeOf(T) = [root |-> 20,
                     kids |-> {<<20, 15, 30>>, <<15, 13, 16>>, <<13, 12, 14>>,
                               <<12, None, None>>, <<14, None, None>>,
                               <<16, None, None>>, <<30, None, None>>}]

(* C22 *)

\* n the left child of p, p the right child of g; A the left subtree of g, B and
\* C the subtrees of n, D the right one of p
ZigZagLeftDone(ns, ms, n, p, g, A, B, C, D) ==
    /\ InPlaceOf(ns, ms, n, g)
    /\ ms[n].left = g /\ ms[n].right = p /\ ms[g].parent = n /\ ms[p].parent = n
    /\ ms[g].left = A /\ ms[g].right = B
    /\ ms[p].left = C /\ ms[p].right = D
    /\ Under(ms, A, g) /\ Under(ms, B, g) /\ Under(ms, C, p) /\ Under(ms, D, p)
    /\ SameBut(ns, ms, {n, p, g, B, C, ns[g].parent})
    /\ ms = rotate_left(rotate_right(ns, p), g)

\* the mirror image: n the right child of p, p the left child of g; A the left
\* subtree of p, B and C the subtrees of n, D the right one of g
ZigZagRightDone(ns, ms, n, p, g, A, B, C, D) ==
    /\ InPlaceOf(ns, ms, n, g)
    /\ ms[n].left = p /\ ms[n].right = g /\ ms[g].parent = n /\ ms[p].parent = n
    /\ ms[p].left = A /\ ms[p].right = B
    /\ ms[g].left = C /\ ms[g].right = D
    /\ Under(ms, A, p) /\ Under(ms, B, p) /\ Under(ms, C, g) /\ Under(ms, D, g)
    /\ SameBut(ns, ms, {n, p, g, B, C, ns[g].parent})
    /\ ms = rotate_right(rotate_left(ns, p), g)

\* the step r = splay_step(ns, n), n under p under g on opposite sides
ZigZagDone(ns, r, n, p, g) ==
    /\ r.ret = (IF ns[g].parent = NULL THEN n ELSE NULL)
    /\ IF ns[p].left = n
       THEN ZigZagLeftDone(ns, r.nodes, n, p, g,
                           ns[g].left, ns[n].left, ns[n].right, ns[p].right)
       ELSE ZigZagRightDone(ns, r.nodes, n, p, g,
                            ns[p].left, ns[n].left, ns[n].right, ns[g].right)

\* n has a parent p that has a parent, and n and p are children on opposite
\* sides
OppositeSides(ns, n) ==
    /\ ns[n].parent # NULL
    /\ ns[ns[n].parent].parent # NULL
    /\ \/ ns[ns[n].parent].left = n /\ ns[ns[ns[n].parent].parent].right = ns[n].parent
       \/ ns[ns[n].parent].right = n /\ ns[ns[ns[n].parent].parent].left = ns[n].parent

\* C22: Zig-Zag step. In every tree, a splay step at n is a Zig-Zag exactly when
\* n is a left child and its parent p a right child, or the opposite (p not the
\* root), and the step then rotates p the way that lifts n and then the former
\* grandparent g the opposite way: for n the left child of p, p the right child
\* of g, g.left = A, n.left = B, n.right = C, p.right = D it leaves n in g's
\* position with n.left = g, n.right = p, g.left = A, g.right = B, p.left = C,
\* p.right = D; the other case is the mirror image.
C22_ZigZagStep ==
    \A n \in DOMAIN nodes :
        /\ splay_type(nodes, n) = "ZigZag" <=> OppositeSides(nodes, n)
        /\ splay_type(nodes, n) = "ZigZag"
              => ZigZagDone(nodes, splay_step(nodes, n), n, nodes[n].parent,
                            nodes[nodes[n].parent].parent)

\* the splay of 45 in the tree of splay_zig_zag_left, one step with 45 the left
\* child of 50 and 50 the right child of 40: 45 is at the root above 40 and 50,
\* 40 above 30 and 44, 50 above 46 and 60
C22_Witness ==
    /\ last.op = "splay" /\ last.key = 45 /\ last.ret = root
    /\ ShapeOf(T) = [root |-> 45,
                     kids |-> {<<45, 40, 50>>, <<40, 30, 44>>, <<50, 46, 60>>,
                               <<30, None, None>>, <<44, None, None>>,
                               <<46, None, None>>, <<60, None, None>>}]

(* C23 *)

\* the keys below p from left to right
RECURSIVE InOrder(_, _)
InOrder(ns, p) ==
    IF p = NULL THEN <<>>
    ELSE InOrder(ns, ns[p].left) \o <<ns[p].key>> \o InOrder(ns, ns[p].right)

\* the parentless ancestor of n
RECURSIVE Top(_, _)
Top(ns, n) == IF ns[n].parent = NULL THEN n ELSE Top(ns, ns[n].parent)

\* the heap ns with c in the slot of q that held n
Replaced(ns, q, n, c) ==
    IF ns[q].left = n THEN [ns[q] EXCEPT !.left = c] ELSE [ns[q] EXCEPT !.right = c]

\* the heap after the left rotation at n described link by link: r = n.right
\* in n's place above n, n above r's former left subtree B, which names n as its
\* parent, and nothing else touched
RotatedLeft(ns, n, r, B, q) ==
    [m \in DOMAIN ns |->
        CASE m = n -> [ns[n] EXCEPT !.parent = r, !.right = B]
          [] m = r -> [ns[r] EXCEPT !.parent = q, !.left = n]
          [] m = B -> [ns[B] EXCEPT !.parent = n]
          [] m = q -> Replaced(ns, q, n, r)
          [] OTHER -> ns[m]]

\* the mirror image: l = n.left in n's place, n above l's former right subtree B
RotatedRight(ns, n, l, B, q) ==
    [m \in DOMAIN ns |->
        CASE m = n -> [ns[n] EXCEPT !.parent = l, !.left = B]
          [] m = l -> [ns[l] EXCEPT !.parent = q, !.right = n]
          [] m = B -> [ns[B] EXCEPT !.parent = n]
          [] m = q -> Replaced(ns, q, n, l)
          [] OTHER -> ns[m]]

\* C23: Rotation. In every tree and for every node n, rotate_left(n) with
\* n.right = r present puts r in n's former position (the slot of n's former
\* parent that held n now holds r, or r is parentless), makes n the left child
\* of r and r's former left subtree the right subtree of n, with the parent
\* slots of r, n and the moved subtree in agreement, and leaves every other
\* link and the in-order key sequence of the tree unchanged; with n.right empty
\* it changes nothing. rotate_right is the mirror image.
C23_Rotation ==
    \A n \in DOMAIN nodes :
        /\ nodes[n].right = NULL => rotate_left(nodes, n) = nodes
        /\ nodes[n].right # NULL =>
              /\ rotate_left(nodes, n) =
                    RotatedLeft(nodes, n, nodes[n].right, nodes[nodes[n].right].left,
                                nodes[n].parent)
              /\ InPlaceOf(nodes, rotate_left(nodes, n), nodes[n].right, n)
              /\ InOrder(rotate_left(nodes, n), Top(rotate_left(nodes, n), n))
                    = InOrder(nodes, Top(nodes, n))
        /\ nodes[n].left = NULL => rotate_right(nodes, n) = nodes
        /\ nodes[n].left # NULL =>
              /\ rotate_right(nodes, n) =
                    RotatedRight(nodes, n, nodes[n].left, nodes[nodes[n].left].right,
                                 nodes[n].parent)
              /\ InPlaceOf(nodes, rotate_right(nodes, n), nodes[n].left, n)
              /\ InOrder(rotate_right(nodes, n), Top(rotate_right(nodes, n), n))
                    = InOrder(nodes, Top(nodes, n))

\* the splay of 35 in the tree of splay_zig_zag_right began with the left
\* rotation at 30, the left child of 40, which put 35 in 40's left slot above 30
\* and handed 34 to 30; the right rotation at 40 then left 35 at the root above
\* 30 and 40, 30 above 20 and 34, 40 above 36 and 50
C23_Witness ==
    /\ last.op = "splay" /\ last.key = 35 /\ last.ret = root
    /\ InOrder(nodes, root) = <<20, 30, 34, 35, 36, 40, 50>>
    /\ ShapeOf(T) = [root |-> 35,
                     kids |-> {<<35, 30, 40>>, <<30, 20, 34>>, <<40, 36, 50>>,
                               <<20, None, None>>, <<34, None, None>>,
                               <<36, None, None>>, <<50, None, None>>}]

(* C24 *)

\* the number of parent links from n up to the parentless node above it
RECURSIVE Depth(_, _)
Depth(ns, n) == IF ns[n].parent = NULL THEN 0 ELSE 1 + Depth(ns, ns[n].parent)

\* one iteration of the loop of splay(n): n moves up, and the loop returns, with
\* n, exactly when n has no parent
SplayStepOn(n) ==
    /\ Depth(nodes, n) > 0 => Depth(nodes', n) < Depth(nodes, n)
    /\ last'.op \in {"splaying", "splay"}
    /\ last'.op = "splay" <=> nodes'[n].parent = NULL
    /\ last'.op = "splay" => last'.ret = n /\ root' = n
    /\ last'.op = "splaying" => last' = last /\ root' = root

\* C24: Splay termination. For every node n of a tree, splay(n) terminates after
\* finitely many steps: each step strictly reduces n's depth, the loop goes on
\* exactly while n has a parent, and it ends, with n parentless and n itself
\* returned as the new root.
C24_SplayTerminates ==
    /\ [][last.op = "splaying" => SplayStepOn(last.ret)]_vars
    /\ \A n \in NodeIds :
          (last.op = "splaying" /\ last.ret = n)
              ~> (last.op = "splay" /\ last.ret = n /\ root = n /\ nodes[n].parent = NULL)

\* splay(12) has returned in the tree of splay_zig_zig_left, where 12 began three
\* links below the root 20: 12 is the parentless root, over the same seven keys
C24_Witness ==
    /\ last.op = "splay" /\ last.key = 12 /\ last.ret = root
    /\ nodes[root].key = 12 /\ nodes[root].parent = NULL
    /\ InOrder(nodes, root) = <<12, 13, 14, 15, 16, 20, 30>>

(* C25 *)

\* remove(k) where g, the result of the find, left k's node at the root above
\* the lone subtree c: c is the root, parentless, and the tree is that subtree
\* as it was
OneChildRemoval(g, c) ==
    /\ root' = c
    /\ nodes'[c].parent = NULL
    /\ DOMAIN nodes' = Subtree(g.t.nodes, c)
    /\ Shape(nodes', c) = Shape(g.t.nodes, c)
    /\ length' = length - 1
    /\ Reachable(TP) = DOMAIN nodes'

\* remove(k) of the only node: the tree is empty
LastRemoval ==
    /\ root' = NULL
    /\ length' = 0
    /\ is_empty(TP)
    /\ DOMAIN nodes' = {}

\* C25: Removal with fewer than two subtrees. When remove(k) finds k and the
\* removed root has exactly one subtree, that subtree's root becomes the root of
\* the tree with a cleared parent slot and the subtree's shape is as it was;
\* when it has no subtree, the tree is empty: the root is absent and len() is 0.
C25_FewerThanTwo ==
    [][ (last'.op = "remove" /\ HasKey(T, last'.key))
        => LET g == get_mut(T, last'.key)
               l == g.t.nodes[g.ret].left
               r == g.t.nodes[g.ret].right
           IN /\ (l # NULL /\ r = NULL) => OneChildRemoval(g, l)
              /\ (l = NULL /\ r # NULL) => OneChildRemoval(g, r)
              /\ (l = NULL /\ r = NULL) => LastRemoval ]_vars

\* the smallest key of a four-node tree was removed: its node had a right
\* subtree only, whose root is now the root above two subtrees of its own
C25_Witness ==
    /\ last.op = "remove" /\ last.found
    /\ length = 3 /\ Cardinality(DOMAIN nodes) = 3
    /\ \A n \in DOMAIN nodes : nodes[n].key > last.key
    /\ nodes[root].parent = NULL
    /\ nodes[root].left # NULL /\ nodes[root].right # NULL

(* C26 *)

\* the abstract map, a set M of (key, value) pairs with one pair for a key, and
\* its operations
MapHas(M, k) == \E p \in M : p[1] = k

MapGet(M, k) == (CHOOSE p \in M : p[1] = k)[2]

MapDel(M, k) == {p \in M : p[1] # k}

MapPut(M, k, v) == MapDel(M, k) \cup {<<k, v>>}

MapOr(M, k, v) == IF MapHas(M, k) THEN M ELSE M \cup {<<k, v>>}

MapApply(M, k, f) == {IF p[1] = k THEN <<k, f[p[2]]>> ELSE p : p \in M}

IsMap(M) == \A p, q \in M : p[1] = q[1] => p = q

Writes == {"insert", "entry_insert", "value_mut"}
Defaults == {"or_insert", "or_insert_with", "or_insert_with_key", "or_default"}
Lookups == {"get", "get_mut", "contains_key", "get_min", "get_min_mut", "get_max",
            "get_max_mut", "entry", "key", "entry_drop"}
Keyed == Writes \cup Defaults \cup {"remove", "and_modify"}

\* the map after the call c on the map M; and_modify, whose closure c does not
\* record, is told apart in the claim
MapAfter(M, c) ==
    CASE c.op \in Writes -> MapPut(M, c.key, c.val)
      [] c.op \in Defaults -> MapOr(M, c.key, c.val)
      [] c.op = "remove" -> MapDel(M, c.key)
      [] OTHER -> M

\* what a lookup by key answers on the map M
Answers(M, c) ==
    /\ c.found <=> MapHas(M, c.key)
    /\ c.op \in {"get", "get_mut"} /\ c.found
          => nodes'[c.ret].key = c.key /\ nodes'[c.ret].value = MapGet(M, c.key)

\* C26: Map refinement. The tree starts with no pair and every call changes the
\* set of (key, value) pairs reachable from the root as the same call changes
\* an abstract map, so the two are always equal: a lookup (get, get_mut,
\* contains_key, get_min, get_max, entry, key) leaves the pairs as they were and
\* answers as the map does, insert and the entry's insert put the pair, the
\* or_insert family puts it when the key is absent, and_modify(f) applies f to a
\* present key's value, remove deletes the key; and a call on key k' never
\* changes the presence or value of a key different from k'.
C26_MapRefinement ==
    /\ Contents(T) = {}
    /\ [][ LET M == Contents(T)
               N == Contents(TP)
           IN /\ IsMap(N)
              /\ last'.op # "and_modify" => N = MapAfter(M, last')
              /\ last'.op = "and_modify"
                    => \A f \in ValueFns : AndModify(f) => N = MapApply(M, entry.key, f)
              /\ last'.op \in Lookups => N = M
              /\ last'.op \in {"get", "get_mut", "contains_key", "entry", "remove"}
                    => Answers(M, last')
              /\ last'.op \in Keyed => Others(TP, last'.key) = Others(T, last'.key)
              /\ length' = Cardinality(N) ]_vars

\* remove(2) has taken 2 out of a tree of four keys: the three other keys are in
\* the tree, 3 with the value 1 a call stored for it
C26_Witness ==
    /\ last.op = "remove" /\ last.found /\ last.key = 2
    /\ KeysOf(T) = {1, 3, 4}
    /\ <<3, 1>> \in Contents(T)
    /\ Cardinality(Contents(T)) = 3

(* C27 *)

\* the slots of the node record b
Links(b) == {b.parent, b.left, b.right}

\* C27: No dangling link to a removed node. After remove(k) has returned the
\* detached node that held k, no node still in the tree has a parent, left or
\* right slot naming the removed node, and the removed node names no node of
\* the tree.
C27_NoDangling ==
    [][ (last'.op = "remove" /\ HasKey(T, last'.key))
        => /\ last'.ret \in DOMAIN nodes /\ nodes[last'.ret].key = last'.key
           /\ last'.ret \notin DOMAIN nodes'
           /\ last'.ret \notin Reachable(TP)
           /\ \A n \in DOMAIN nodes' : last'.ret \notin Links(nodes'[n])
           /\ Links(last'.box) \cap DOMAIN nodes' = {} ]_vars

\* remove(3) has detached the node of 3 from a tree of 1, 2, 3, 4: no slot of the
\* three nodes left names it, and the root they hang from is parentless
C27_Witness ==
    /\ last.op = "remove" /\ last.found /\ last.key = 3
    /\ KeysOf(T) = {1, 2, 4}
    /\ \A n \in DOMAIN nodes : last.ret \notin Links(nodes[n])
    /\ Links(last.box) = {NULL}

(* C28 *)

\* the vacant entry e stands where insert_child has a node to return: without a
\* parent over an empty root, otherwise at the terminal node of the find walk
\* for its key, whose key is another and whose slot on the key's side is empty
VacantInPlace(t, e) ==
    /\ e.parent = NULL => t.root = NULL
    /\ e.parent # NULL
          => /\ Terminal(t, e.parent, e.key)
             /\ t.nodes[e.parent].key # e.key
             /\ e.key < t.nodes[e.parent].key => t.nodes[e.parent].left = NULL
             /\ e.key > t.nodes[e.parent].key => t.nodes[e.parent].right = NULL

\* the step allocated exactly one node
OneAllocated ==
    /\ DOMAIN nodes \subseteq DOMAIN nodes'
    /\ Cardinality(DOMAIN nodes' \ DOMAIN nodes) = 1

\* C28: Resolving a vacant entry never panics. No call ever panics; every vacant
\* entry entry(k) hands out has no parent only over an empty root and otherwise
\* names the terminal node of the find walk, whose key differs from k and whose
\* child slot on k's side is empty, so the tree's insert_child returns a node for
\* it, which the resolution hands out; and length grows only by one and only in
\* a step that allocates a node.
C28_VacantNeverPanics ==
    /\ [](~panicked)
    /\ [](entry.kind = "Vacant" => VacantInPlace(T, entry))
    /\ [][ /\ (last'.op \in ResolveCalls /\ entry.kind = "Vacant")
              => /\ tree_insert_child(T, entry.parent, entry.key, last'.val).ret # NULL
                 /\ last'.ret # NULL
                 /\ nodes'[last'.ret].key = entry.key
                 /\ OneAllocated
                 /\ last'.ret \notin DOMAIN nodes
           /\ (last'.op = "insert" /\ ~last'.found)
              => last'.ret # NULL /\ OneAllocated /\ length' = length + 1
           /\ length' > length => length' = length + 1 /\ OneAllocated
           /\ OneAllocated => length' = length + 1 ]_vars

\* or_insert_with_key has resolved a vacant entry that named a parent: the
\* fourth node of the tree was allocated for it and is the root
C28_Witness ==
    /\ last.op = "or_insert_with_key" /\ ~last.found /\ ~panicked
    /\ length = 4 /\ Cardinality(DOMAIN nodes) = 4
    /\ last.ret = root /\ nodes[root].key = last.key

(* C29 *)

Repeatable == {"get", "get_min", "get_max"}

\* C29: Repeated access is idempotent on shape. A splay step at the root is of
\* no type, rotates nothing and returns the root, so get(k) for the key at the
\* root leaves every link as it is; hence get(k) right after a get(k) that found
\* k, get_min right after get_min and get_max right after get_max return the
\* same node and leave the tree exactly as the first call left it.
C29_RepeatedAccess ==
    /\ [](root # NULL
            => /\ splay_type(nodes, root) = "None"
               /\ splay_step(nodes, root) = [nodes |-> nodes, ret |-> root])
    /\ [][ /\ (last'.op = "get" /\ root # NULL /\ nodes[root].key = last'.key)
              => TP = T /\ last'.ret = root
           /\ (last'.op \in Repeatable /\ last'.same /\ last.ret # NULL)
              => /\ TP = T
                 /\ last'.ret = last.ret
                 /\ last'.ret = root'
                 /\ ShapeOf(TP) = ShapeOf(T) ]_vars

\* the second of two get(2) in a row, in a tree of four keys where the root 2
\* has both subtrees and 4 hangs below 3
C29_Witness ==
    /\ last.op = "get" /\ last.same /\ last.found /\ last.key = 2
    /\ last.ret = root
    /\ ShapeOf(T) = [root |-> 2,
                     kids |-> {<<2, 1, 3>>, <<1, None, None>>, <<3, None, 4>>,
                               <<4, None, None>>}]

====
